---- MODULE Spec2Model ----
(***************************************************************************)
(* Model of pyamlboot.AmlogicSoC (src/pyamlboot/pyamlboot.py): the host    *)
(* side of the Amlogic USB boot protocol.  One session object, one caller. *)
(* Every call is a sequence of USB transactions; `log` records the         *)
(* transactions the current (or last) call issued, in issue order.         *)
(*                                                                         *)
(* Python integers are unbounded; a 32-bit quantity v is represented here  *)
(* as the record [hi |-> v >> 16, lo |-> v & 0xffff] so that values above  *)
(* 2^31 can be written down.  `hi` is itself unbounded: address + offset   *)
(* in Python does not wrap.                                                *)
(***************************************************************************)
EXTENDS Integers, Sequences, FiniteSets, TLC

\* ---------------------------------------------------------------- bounds
\* largest buffer length handed to the chunked (64-byte) operations
MaxLen == 130
\* largest buffer length handed to the large (bulk) operations
MaxLargeLen == 9
\* largest blockLength handed to the large (bulk) operations
MaxBlockLength == 4
\* number of distinct byte patterns used as buffer contents
NumSeeds == 2
\* largest word count handed to memcpy
MaxWords == 2
MaxSessionLookups == 2
MaxLockedLen == 3

\* ------------------------------------------------------- source constants
REQ_WRITE_MEM == 1
REQ_READ_MEM == 2
REQ_MODIFY_MEM == 4
REQ_RUN_IN_ADDR == 5
REQ_WR_LARGE_MEM == 17
REQ_RD_LARGE_MEM == 18
REQ_PASSWORD == 53
FLAG_KEEP_POWER_ON == 16

\* ------------------------------------------------------------ Python ints
\* v >> 16 and v & 0xffff of the integer hi * 2^16 + lo
U(hi, lo) == [hi |-> hi, lo |-> lo]

\* small non-negative integer n as a Python int
ToU(n) == U(n \div 65536, n % 65536)

\* a + n for a Python int a and a small non-negative integer n (no wrap)
AddU(a, n) == U(a.hi + ((a.lo + n) \div 65536), (a.lo + n) % 65536)

\* struct.pack('<I', v): four bytes, least significant first
pack_I(v) == << v.lo % 256, v.lo \div 256, v.hi % 256, v.hi \div 256 >>

\* struct.pack('<IIII', a, b, c, d)
pack_IIII(a, b, c, d) == pack_I(a) \o pack_I(b) \o pack_I(c) \o pack_I(d)

Min(a, b) == IF a < b THEN a ELSE b

\* Python slice data[lo:hi] of a buffer (0-based, hi exclusive, clamped)
Slice(data, lo, hi) == SubSeq(data, lo + 1, Min(hi, Len(data)))

\* n zero bytes: pack('b', 0) * n
Zeros(n) == [i \in 1..n |-> 0]

\* ----------------------------------------------------------------- inputs
\* 0x00001000, 0x0000ffc0 (one chunk below a 64 KiB boundary),
\* 0xffffffc0 (one chunk below 2^32)
Addrs == { U(0, 4096), U(0, 65472), U(65535, 65472) }

\* buffer contents: byte i (0-based) of pattern `seed`
Buf(seed, n) == [i \in 1..n |-> (17 * seed + 7 * i + 3) % 256]

Seeds == 1..NumSeeds

\* addresses handed to run: Addrs and 0x00001010 (bit 0x10 already set)
RunAddrs == Addrs \cup { U(0, 4112) }

\* password lengths around the documented 64 bytes
PasswordLens == { 0, 63, 64, 65 }

\* lengths around the 64-byte chunk boundaries
Lens == (0..2) \cup (62..66) \cup (126..MaxLen)

\* register addresses 0xc8100000 and 0xc8100004
RegAddrs == { U(51216, 0), U(51216, 4) }

\* 32-bit words closed under AND, OR and NOT:
\* 0, 0x0f0f00ff, 0xf0f0ff00, 0xffffffff
RegVals == { U(0, 0), U(3855, 255), U(61680, 65280), U(65535, 65535) }

\* ------------------------------------------------------------ transactions
\* one USB control transfer as handed to dev.ctrl_transfer; `data` is the
\* OUT payload (empty for IN), `wLength` the number of bytes to move
ctrl_transfer(bmRequestType, bRequest, wValue, wIndex, data, wLength) ==
    [ kind |-> "ctrl", bmRequestType |-> bmRequestType, bRequest |-> bRequest,
      wValue |-> wValue, wIndex |-> wIndex, data |-> data, wLength |-> wLength ]

\* one bulk OUT transfer as handed to ep.write(data, timeout)
ep_write(data, timeout) ==
    [ kind |-> "bulk_out", data |-> data, timeout |-> timeout ]

\* one bulk IN transfer: ep.read(size, timeout) and the bytes it returned
ep_read(size, timeout, data) ==
    [ kind |-> "bulk_in", size |-> size, timeout |-> timeout, data |-> data ]

\* ------------------------------------------------------------ device stub
\* 16-bit bitwise AND
RECURSIVE And16(_, _)
And16(a, b) ==
    IF a = 0 \/ b = 0 THEN 0
    ELSE (a % 2) * (b % 2) + 2 * And16(a \div 2, b \div 2)

AndW(x, y) == U(And16(x.hi, y.hi), And16(x.lo, y.lo))
NotW(x) == U(65535 - x.hi, 65535 - x.lo)
OrW(x, y) == U(x.hi + y.hi - And16(x.hi, y.hi), x.lo + y.lo - And16(x.lo, y.lo))

\* the 32-bit address a + n on the device (wraps at 2^32)
DevAddr(a, n) == U((a.hi + ((a.lo + n) \div 65536)) % 65536, (a.lo + n) % 65536)

\* the k-th (0-based) little-endian 32-bit field of a payload
Field(bytes, k) ==
    U(bytes[4 * k + 3] + 256 * bytes[4 * k + 4],
      bytes[4 * k + 1] + 256 * bytes[4 * k + 2])

\* a device with cleared byte memory and the given registers
EmptyMem == << >>
FreshDev == [ mem |-> EmptyMem, regs |-> [a \in RegAddrs |-> U(0, 0)] ]

MemAt(mem, a) == IF a \in DOMAIN mem THEN mem[a] ELSE 0
RegAt(regs, a) == IF a \in DOMAIN regs THEN regs[a] ELSE U(0, 0)
RegSet(regs, a, v) == IF a \in DOMAIN regs THEN [regs EXCEPT ![a] = v] ELSE regs

\* byte memory after storing `data` at address a
MemStore(mem, a, data) ==
    LET new == { DevAddr(a, k - 1) : k \in 1..Len(data) }
    IN  [ x \in (DOMAIN mem) \cup new |->
            IF x \in new
            THEN data[CHOOSE k \in 1..Len(data) : DevAddr(a, k - 1) = x]
            ELSE mem[x] ]

\* sub-opcode 7: copy n words from a2 to a1 (the stub's registers are
\* consecutive words, so only the first few words of the copy can land on one)
CopyWords(regs, a1, a2, n) ==
    LET hit(a) == { k \in 0..(Cardinality(DOMAIN regs) - 1) :
                      (n.hi > 0 \/ n.lo > k) /\ DevAddr(a1, 4 * k) = a }
    IN  [ a \in DOMAIN regs |->
            IF hit(a) # {}
            THEN RegAt(regs, DevAddr(a2, 4 * (CHOOSE k \in hit(a) : TRUE)))
            ELSE regs[a] ]

\* registers after a modify-memory request, per the sub-opcode table
DevModify(regs, opcode, a1, data, mask, a2) ==
    LET old == RegAt(regs, a1) IN
    CASE opcode = 0 -> RegSet(regs, a1, data)
      [] opcode = 1 -> RegSet(regs, a1, AndW(old, mask))
      [] opcode = 2 -> RegSet(regs, a1, OrW(old, mask))
      [] opcode = 3 -> RegSet(regs, a1, AndW(old, NotW(mask)))
      [] opcode = 4 -> RegSet(regs, a1, OrW(AndW(old, NotW(mask)), AndW(data, mask)))
      [] opcode = 5 -> RegSet(regs, a1, RegAt(regs, a2))
      [] opcode = 6 -> RegSet(regs, a1, OrW(AndW(old, NotW(mask)),
                                            AndW(RegAt(regs, a2), mask)))
      [] opcode = 7 -> CopyWords(regs, a1, a2, data)
      [] OTHER -> regs

\* the device after it has accepted control transfer x
DevCtrl(d, x) ==
    LET a == U(x.wValue % 65536, x.wIndex % 65536) IN
    CASE x.bRequest = REQ_WRITE_MEM /\ x.bmRequestType = 64 ->
            [d EXCEPT !.mem = MemStore(d.mem, a, x.data)]
      [] x.bRequest = REQ_MODIFY_MEM /\ x.bmRequestType = 64 /\ Len(x.data) = 16 ->
            [d EXCEPT !.regs = DevModify(d.regs, x.wValue, Field(x.data, 0),
                                         Field(x.data, 1), Field(x.data, 2),
                                         Field(x.data, 3))]
      [] OTHER -> d

\* the bytes the device returns for IN control transfer x
DevRead(d, x) ==
    LET a == U(x.wValue % 65536, x.wIndex % 65536) IN
    IF x.bRequest = REQ_READ_MEM /\ x.bmRequestType = 192
    THEN [k \in 1..x.wLength |-> MemAt(d.mem, DevAddr(a, k - 1))]
    ELSE Zeros(x.wLength)

\* what the stub's memory holds at a after power-on, where nothing was stored
BootRom(a) == (a.lo + 3 * a.hi) % 256

\* the block the stub streams on its IN endpoint after announcement x, when
\* `sent` bytes of the announced range have been streamed already
DevBulkRead(d, x, sent, size) ==
    LET a == Field(x.data, 0) IN
    [ k \in 1..size |->
        LET b == DevAddr(a, sent + k - 1) IN
        IF b \in DOMAIN d.mem THEN d.mem[b] ELSE BootRom(b) ]

\* ------------------------------------------------------------------ state
VARIABLES
    pc,        \* "idle", the method whose loop is running, or "done"
    op,        \* the method called last
    args,      \* its arguments
    loc,       \* its local variables
    log,       \* the USB transactions it has issued, in issue order
    lookups,   \* the endpoint descriptor lookups it has made
    result,    \* "none", "running", "ok", or the exception that ended it
    ret,       \* its return value
    dev,       \* the device stub: byte memory and registers
    recv,      \* the transactions of the call that the device completed
    found,     \* endpoint lookups of the session so far, per direction
    lock,      \* two callers sharing a session: the caller holding its lock, or 0
    th,        \* ... each caller's thread: where it is in its call
    wire,      \* ... the transfers issued on the device, oldest first
    serial,    \* ... the number given to the last call started
    written    \* the last memory write call: address, data, completed

vars0 == << pc, op, args, loc, log, lookups, result, ret, dev, recv, found,
           written >>

lvars == << lock, th, wire, serial >>

vars == << pc, op, args, loc, log, lookups, result, ret, dev, recv, found,
          written, lock, th, wire, serial >>

\* the callers that share one session under a lock
Callers == { 1, 2 }

IdleThread == [ pc |-> "idle", op |-> "none", call |-> 0, data |-> << >>,
                blockLength |-> 0, blockCount |-> 0, offset |-> 0,
                result |-> "none" ]

NoLoc == [ address |-> U(0, 0), data |-> << >>, length |-> 0, offset |-> 0,
           blockLength |-> 0, blockCount |-> 0 ]

\* __init__ makes no endpoint lookup
NoneFound == [ d \in { "OUT", "IN" } |-> 0 ]

LargeOps == { "writeLargeMemory", "readLargeMemory" }

Init ==
    /\ pc = "idle"
    /\ op = "none"
    /\ args = << >>
    /\ loc = NoLoc
    /\ log = << >>
    /\ lookups = << >>
    /\ result = "none"
    /\ ret = << >>
    /\ dev = FreshDev
    /\ recv = << >>
    /\ found = NoneFound
    /\ lock = 0
    /\ th = [c \in Callers |-> IdleThread]
    /\ wire = << >>
    /\ serial = 0
    /\ written = [ by |-> "none", address |-> U(0, 0), data |-> << >>, done |-> FALSE ]

\* the transactions completed so far, after the transactions `xfer` were
\* issued and the transport reported usbOk
Recv(rcv, xfer, usbOk) == IF usbOk THEN rcv \o xfer ELSE rcv

\* ----------------------------------------------------------- call protocol
\* a failed transaction whose exception is caught and dropped
Raised_caught(usbOk) == FALSE

\* dev.ctrl_transfer, ep.write and ep.read raise when the transaction
\* fails, and no method has a try statement: the exception leaves the call
Raised(usbOk) == ~usbOk

\* a call starts: the caller is not inside another call of this session
Begin(name, a) ==
    /\ pc = "idle"
    /\ name \in LargeOps \/ found = NoneFound
    /\ UNCHANGED lvars
    /\ op' = name
    /\ args' = a

\* the call ends with outcome res and return value r
End(res, r) ==
    /\ pc' = "done"
    /\ result' = res
    /\ ret' = r

\* the caller takes the outcome; the call's locals are discarded
Return ==
    /\ pc = "done"
    /\ pc' = "idle"
    /\ op' = "none"
    /\ args' = << >>
    /\ loc' = NoLoc
    /\ log' = << >>
    /\ recv' = << >>
    /\ lookups' = << >>
    /\ UNCHANGED found
    /\ result' = "none"
    /\ ret' = << >>
    /\ UNCHANGED << dev, written, lvars >>

\* the harness opens a new session: AmlogicSoC(...), lines 52-58
NewSession ==
    /\ pc = "idle"
    /\ found # NoneFound
    /\ found' = NoneFound
    /\ UNCHANGED << pc, op, args, loc, log, recv, lookups, result, ret, dev, written, lvars >>

\* the test harness attaches a new stub device to the session
NoWrite == [ by |-> "none", address |-> U(0, 0), data |-> << >>, done |-> FALSE ]

\* the stub has not been used yet
Unused == dev = FreshDev /\ written = NoWrite

NewStub ==
    /\ pc = "idle"
    /\ ~Unused
    /\ dev' = FreshDev
    /\ written' = NoWrite
    /\ UNCHANGED << pc, op, args, loc, log, recv, lookups, found, result, ret, lvars >>

\* ------------------------------------------------- chunked memory access
\* writeSimpleMemory refusing a full 64-byte chunk
writeSimpleMemory_strict(address, data) ==
    IF Len(data) >= 64
    THEN [ raise |-> "ValueError", xfer |-> << >> ]
    ELSE [ raise |-> "none",
           xfer |-> << ctrl_transfer(64, REQ_WRITE_MEM, address.hi, address.lo,
                                     data, Len(data)) >> ]

\* writeSimpleMemory(address, data): the exception it raises, or the
\* control transfer it issues
writeSimpleMemory(address, data) ==
    IF Len(data) > 64
    THEN [ raise |-> "ValueError", xfer |-> << >> ]
    ELSE [ raise |-> "none",
           xfer |-> << ctrl_transfer(64, REQ_WRITE_MEM, address.hi, address.lo,
                                     data, Len(data)) >> ]

\* readSimpleMemory with the address halves exchanged
readSimpleMemory_swapped(address, length) ==
    IF length = 0
    THEN [ raise |-> "none", xfer |-> << >> ]
    ELSE IF length > 64
    THEN [ raise |-> "ValueError", xfer |-> << >> ]
    ELSE [ raise |-> "none",
           xfer |-> << ctrl_transfer(192, REQ_READ_MEM, address.lo, address.hi,
                                     << >>, length) >> ]

\* readSimpleMemory(address, length): returns '' without a transfer, raises,
\* or issues one IN control transfer
readSimpleMemory(address, length) ==
    IF length = 0
    THEN [ raise |-> "none", xfer |-> << >> ]
    ELSE IF length > 64
    THEN [ raise |-> "ValueError", xfer |-> << >> ]
    ELSE [ raise |-> "none",
           xfer |-> << ctrl_transfer(192, REQ_READ_MEM, address.hi, address.lo,
                                     << >>, length) >> ]

\* a direct call of writeSimpleMemory (each stub takes one memory write call)
Call_writeSimpleMemory ==
    \E address \in Addrs, n \in Lens, seed \in Seeds, usbOk \in BOOLEAN :
        LET data == Buf(seed, n)
            r == writeSimpleMemory(address, data)
        IN  /\ Begin("writeSimpleMemory", [address |-> address, data |-> data])
            /\ Unused
            /\ loc' = NoLoc
            /\ lookups' = << >>
            /\ UNCHANGED found
            /\ log' = r.xfer
            /\ recv' = Recv(<< >>, r.xfer, usbOk)
            /\ IF r.raise # "none"
               THEN /\ End(r.raise, << >>)
                    /\ UNCHANGED << dev, written >>
               ELSE /\ written' = [by |-> "writeSimpleMemory", address |-> address,
                                    data |-> data, done |-> usbOk]
                    /\ IF usbOk
                       THEN /\ dev' = DevCtrl(dev, r.xfer[1])
                            /\ End("ok", << >>)
                       ELSE /\ UNCHANGED dev
                            /\ End("USBError", << >>)

\* a direct call of readSimpleMemory
Call_readSimpleMemory ==
    \E address \in Addrs, length \in Lens, usbOk \in BOOLEAN :
        LET r == readSimpleMemory(address, length)
        IN  /\ Begin("readSimpleMemory", [address |-> address, length |-> length])
            /\ loc' = NoLoc
            /\ lookups' = << >>
            /\ UNCHANGED found
            /\ log' = r.xfer
            /\ recv' = Recv(<< >>, r.xfer, usbOk)
            /\ UNCHANGED << dev, written >>
            /\ IF r.raise # "none"
               THEN End(r.raise, << >>)
               ELSE IF r.xfer = << >>
               THEN /\ usbOk
                    /\ End("ok", << >>)
               ELSE IF usbOk
               THEN End("ok", DevRead(dev, r.xfer[1]))
               ELSE End("USBError", << >>)

\* writeMemory(address, data): lines 73-74, up to the loop
Call_writeMemory ==
    \E address \in Addrs, n \in Lens, seed \in Seeds :
        LET data == Buf(seed, n)
        IN  /\ Begin("writeMemory", [address |-> address, data |-> data])
            /\ Unused
            /\ loc' = [NoLoc EXCEPT !.address = address, !.data = data,
                                    !.length = Len(data), !.offset = 0]
            /\ log' = << >>
            /\ recv' = << >>
            /\ lookups' = << >>
            /\ UNCHANGED found
            /\ pc' = "writeMemory"
            /\ result' = "running"
            /\ ret' = << >>
            /\ UNCHANGED dev
            /\ written' = [by |-> "writeMemory", address |-> address,
                            data |-> data, done |-> FALSE]

\* writeMemoryNext with the loop test off by one: a last chunk of one byte
\* is dropped
writeMemoryNext_late(length) ==
    IF length > 65 THEN [ brk |-> FALSE, length |-> length - 64 ]
    ELSE [ brk |-> TRUE, length |-> length ]

\* writeMemoryNext that forgets to take the chunk off the remaining length
writeMemoryNext_stuck(length) ==
    IF length > 64 THEN [ brk |-> FALSE, length |-> length ]
    ELSE [ brk |-> TRUE, length |-> length ]

\* the remaining length after one 64-byte chunk went out, or "break"
writeMemoryNext(length) ==
    IF length > 64 THEN [ brk |-> FALSE, length |-> length - 64 ]
    ELSE [ brk |-> TRUE, length |-> length ]

\* writeMemory: one evaluation of `while length:` and its body
Loop_writeMemory ==
    /\ pc = "writeMemory"
    /\ UNCHANGED << op, args, lookups, found, lvars >>
    /\ IF loc.length = 0
       THEN /\ End("ok", << >>)
            /\ written' = [written EXCEPT !.done = TRUE]
            /\ UNCHANGED << loc, log, recv, dev >>
       ELSE \E usbOk \in BOOLEAN :
            LET r == writeSimpleMemory(AddU(loc.address, loc.offset),
                                       Slice(loc.data, loc.offset, loc.offset + 64))
                nx == writeMemoryNext(loc.length)
            IN  /\ log' = log \o r.xfer
                /\ recv' = Recv(recv, r.xfer, usbOk)
                /\ IF r.raise # "none"
                   THEN /\ End(r.raise, << >>)
                        /\ UNCHANGED << loc, dev, written >>
                   ELSE IF Raised(usbOk)
                   THEN /\ End("USBError", << >>)
                        /\ UNCHANGED << loc, dev, written >>
                   ELSE /\ dev' = DevCtrl(dev, r.xfer[1])
                        /\ IF nx.brk
                           THEN /\ End("ok", << >>)
                                /\ written' = [written EXCEPT !.done = TRUE]
                                /\ UNCHANGED loc
                           ELSE /\ loc' = [loc EXCEPT !.length = nx.length,
                                                      !.offset = loc.offset + 64]
                                /\ UNCHANGED << pc, result, ret, written >>

\* readMemory(address, length): lines 102-103, up to the loop
Call_readMemory ==
    \E address \in Addrs, length \in Lens :
        /\ Begin("readMemory", [address |-> address, length |-> length])
        /\ loc' = [NoLoc EXCEPT !.address = address, !.data = << >>,
                                !.length = length, !.offset = 0]
        /\ log' = << >>
        /\ recv' = << >>
        /\ lookups' = << >>
        /\ UNCHANGED found
        /\ pc' = "readMemory"
        /\ result' = "running"
        /\ ret' = << >>
        /\ UNCHANGED << dev, written >>

\* readMemoryNext asking for a full chunk on the last read too
readMemoryNext_full(length) ==
    IF length >= 64 THEN [ brk |-> FALSE, size |-> 64, length |-> length - 64 ]
    ELSE [ brk |-> TRUE, size |-> 64, length |-> length ]

\* the size of the next read and whether it is the last one
readMemoryNext(length) ==
    IF length >= 64 THEN [ brk |-> FALSE, size |-> 64, length |-> length - 64 ]
    ELSE [ brk |-> TRUE, size |-> length, length |-> length ]

\* readMemory: one evaluation of `while length:` and its body
Loop_readMemory ==
    /\ pc = "readMemory"
    /\ UNCHANGED << op, args, lookups, found, lvars, dev, written >>
    /\ IF loc.length = 0
       THEN /\ End("ok", loc.data)
            /\ UNCHANGED << loc, log, recv >>
       ELSE \E usbOk \in BOOLEAN :
            LET nx == readMemoryNext(loc.length)
                r == readSimpleMemory(AddU(loc.address, loc.offset), nx.size)
                got == IF r.xfer = << >> THEN << >> ELSE DevRead(dev, r.xfer[1])
            IN  /\ log' = log \o r.xfer
                /\ recv' = Recv(recv, r.xfer, usbOk)
                /\ IF r.raise # "none"
                   THEN /\ End(r.raise, << >>)
                        /\ UNCHANGED loc
                   ELSE IF Raised(usbOk)
                   THEN /\ End("USBError", << >>)
                        /\ UNCHANGED loc
                   ELSE IF nx.brk
                   THEN /\ End("ok", loc.data \o got)
                        /\ loc' = [loc EXCEPT !.data = loc.data \o got]
                   ELSE /\ loc' = [loc EXCEPT !.data = loc.data \o got,
                                              !.length = nx.length,
                                              !.offset = loc.offset + 64]
                        /\ UNCHANGED << pc, result, ret >>

\* ------------------------------------------ register / memory modify engine
\* modifyMemory(opcode, address1, data, mask, address2): its control transfer
modifyMemory(opcode, address1, data, mask, address2) ==
    ctrl_transfer(64, REQ_MODIFY_MEM, opcode, 0,
                  pack_IIII(address1, data, mask, address2), 16)

\* writeReg with the value sent in the mask field
writeReg_mask(address, value) == modifyMemory(0, address, U(0, 0), value, U(0, 0))

writeReg(address, value) == modifyMemory(0, address, value, U(0, 0), U(0, 0))

maskRegAND(address, mask) == modifyMemory(1, address, U(0, 0), mask, U(0, 0))

maskRegOR(address, mask) == modifyMemory(2, address, U(0, 0), mask, U(0, 0))

maskRegNAND(address, mask) == modifyMemory(3, address, U(0, 0), mask, U(0, 0))

\* writeRegBits with mask and value exchanged
writeRegBits_swapped(address, mask, value) ==
    modifyMemory(4, address, mask, value, U(0, 0))

writeRegBits(address, mask, value) == modifyMemory(4, address, value, mask, U(0, 0))

copyReg(source, dest) == modifyMemory(5, dest, U(0, 0), U(0, 0), source)

copyRegMaskAND(source, dest, mask) == modifyMemory(6, dest, U(0, 0), mask, source)

memcpy(dest, src, n) == modifyMemory(7, src, n, U(0, 0), dest)

\* the rest of a call that consists of the single host-to-device control
\* transfer x
SingleTransfer(x) ==
    \E usbOk \in BOOLEAN :
        /\ loc' = NoLoc
        /\ lookups' = << >>
        /\ UNCHANGED found
        /\ log' = << x >>
        /\ recv' = Recv(<< >>, << x >>, usbOk)
        /\ UNCHANGED written
        /\ IF usbOk
           THEN /\ dev' = DevCtrl(dev, x)
                /\ End("ok", << >>)
           ELSE /\ UNCHANGED dev
                /\ End("USBError", << >>)

Call_modifyMemory ==
    \E opcode \in 0..7, address1 \in RegAddrs, data \in RegVals,
       mask \in RegVals, address2 \in RegAddrs :
        /\ Begin("modifyMemory",
                 [opcode |-> opcode, address1 |-> address1, data |-> data, mask |-> mask, address2 |-> address2])
        /\ written = NoWrite
        /\ SingleTransfer(modifyMemory(opcode, address1, data, mask, address2))

Call_writeReg ==
    \E address \in RegAddrs, value \in RegVals :
        /\ Begin("writeReg",
                 [address |-> address, value |-> value])
        /\ written = NoWrite
        /\ SingleTransfer(writeReg(address, value))

Call_maskRegAND ==
    \E address \in RegAddrs, mask \in RegVals :
        /\ Begin("maskRegAND",
                 [address |-> address, mask |-> mask])
        /\ written = NoWrite
        /\ SingleTransfer(maskRegAND(address, mask))

Call_maskRegOR ==
    \E address \in RegAddrs, mask \in RegVals :
        /\ Begin("maskRegOR",
                 [address |-> address, mask |-> mask])
        /\ written = NoWrite
        /\ SingleTransfer(maskRegOR(address, mask))

Call_maskRegNAND ==
    \E address \in RegAddrs, mask \in RegVals :
        /\ Begin("maskRegNAND",
                 [address |-> address, mask |-> mask])
        /\ written = NoWrite
        /\ SingleTransfer(maskRegNAND(address, mask))

Call_writeRegBits ==
    \E address \in RegAddrs, mask \in RegVals, value \in RegVals :
        /\ Begin("writeRegBits",
                 [address |-> address, mask |-> mask, value |-> value])
        /\ written = NoWrite
        /\ SingleTransfer(writeRegBits(address, mask, value))

Call_copyReg ==
    \E source \in RegAddrs, dest \in RegAddrs :
        /\ Begin("copyReg",
                 [source |-> source, dest |-> dest])
        /\ written = NoWrite
        /\ SingleTransfer(copyReg(source, dest))

Call_copyRegMaskAND ==
    \E source \in RegAddrs, dest \in RegAddrs, mask \in RegVals :
        /\ Begin("copyRegMaskAND",
                 [source |-> source, dest |-> dest, mask |-> mask])
        /\ written = NoWrite
        /\ SingleTransfer(copyRegMaskAND(source, dest, mask))

Call_memcpy ==
    \E dest \in RegAddrs, src \in RegAddrs, n \in 0..MaxWords :
        /\ Begin("memcpy",
                 [dest |-> dest, src |-> src, n |-> n])
        /\ written = NoWrite
        /\ SingleTransfer(memcpy(dest, src, ToU(n)))

\* ------------------------------------------------------ session operations
\* v | flag for a flag below 2^16
BitOr(v, flag) == U(v.hi, v.lo + flag - And16(v.lo, flag))

\* run with the flag added instead of or-ed in
run_plus(address, keep_power) ==
    LET data == IF keep_power THEN AddU(address, FLAG_KEEP_POWER_ON) ELSE address
    IN  ctrl_transfer(64, REQ_RUN_IN_ADDR, address.hi, address.lo, pack_I(data), 4)

\* run(address, keep_power): its control transfer
run(address, keep_power) ==
    LET data == IF keep_power THEN BitOr(address, FLAG_KEEP_POWER_ON) ELSE address
    IN  ctrl_transfer(64, REQ_RUN_IN_ADDR, address.hi, address.lo, pack_I(data), 4)

Call_run ==
    \E address \in RunAddrs, keep_power \in BOOLEAN :
        /\ Begin("run", [address |-> address, keep_power |-> keep_power])
        /\ SingleTransfer(run(address, keep_power))

\* sendPassword(password): line 261 reads the name `length`, which is bound
\* neither in the method nor in the module, so evaluating the test raises
\* NameError whatever the password is
sendPassword(password) ==
    [ raise |-> "NameError", xfer |-> << >> ]

Call_sendPassword ==
    \E n \in PasswordLens, seed \in Seeds, usbOk \in BOOLEAN :
        LET password == Buf(seed, n)
            r == sendPassword(password)
        IN  /\ Begin("sendPassword", [password |-> password])
            /\ loc' = NoLoc
            /\ lookups' = << >>
            /\ UNCHANGED found
            /\ log' = r.xfer
            /\ recv' = Recv(<< >>, r.xfer, usbOk)
            /\ UNCHANGED << dev, written >>
            /\ IF r.raise # "none"
               THEN End(r.raise, << >>)
               ELSE End(IF usbOk THEN "ok" ELSE "USBError", << >>)

\* ------------------------------------------------- bulk block transfer
\* usb.util.find_descriptor(intf, custom_match = ...): the lookups a large
\* call makes for its endpoint; nothing of an earlier call is consulted
find_descriptor(direction) == << direction >>

\* writeLargeMemoryPad without the multiple-of-blockLength test
writeLargeMemoryPad_unchecked(data, blockLength, appendZeros) ==
    IF appendZeros
    THEN [ raise |-> "none", data |-> data \o Zeros(Len(data) % blockLength) ]
    ELSE [ raise |-> "none", data |-> data ]

\* writeLargeMemory lines 182-186: the padded data, or the exception
writeLargeMemoryPad(data, blockLength, appendZeros) ==
    IF appendZeros
    THEN [ raise |-> "none", data |-> data \o Zeros(Len(data) % blockLength) ]
    ELSE IF Len(data) % blockLength # 0
    THEN [ raise |-> "ValueError", data |-> data ]
    ELSE [ raise |-> "none", data |-> data ]

\* writeLargeMemory line 188
writeLargeMemoryCount(length, blockLength) == length \div blockLength

\* the announcement with wValue and wIndex exchanged
writeLargeMemoryAnnounce_swapped(address, data, blockLength, blockCount) ==
    ctrl_transfer(64, REQ_WR_LARGE_MEM, blockCount, blockLength,
                  pack_IIII(address, ToU(Len(data)), U(0, 0), U(0, 0)), 16)

\* writeLargeMemory lines 189, 203-207: the announcement
writeLargeMemoryAnnounce(address, data, blockLength, blockCount) ==
    ctrl_transfer(64, REQ_WR_LARGE_MEM, blockLength, blockCount,
                  pack_IIII(address, ToU(Len(data)), U(0, 0), U(0, 0)), 16)

\* writeLargeMemory(address, data, blockLength, appendZeros): lines 182-207,
\* up to the loop
Call_writeLargeMemory ==
    \E address \in Addrs, n \in 0..MaxLargeLen, seed \in Seeds,
       blockLength \in 1..MaxBlockLength, appendZeros \in BOOLEAN :
        LET data == Buf(seed, n)
            p == writeLargeMemoryPad(data, blockLength, appendZeros)
            blockCount == writeLargeMemoryCount(Len(p.data), blockLength)
            x == writeLargeMemoryAnnounce(address, p.data, blockLength, blockCount)
        IN  /\ Begin("writeLargeMemory",
                     [address |-> address, data |-> data,
                      blockLength |-> blockLength, appendZeros |-> appendZeros])
            /\ Unused
            /\ found["OUT"] + found["IN"] < MaxSessionLookups
            /\ UNCHANGED << dev, written >>
            /\ IF p.raise # "none"
               THEN /\ End(p.raise, << >>)
                    /\ loc' = NoLoc
                    /\ log' = << >>
                    /\ recv' = << >>
                    /\ lookups' = << >>
                    /\ UNCHANGED found
               ELSE \E usbOk \in BOOLEAN :
                    /\ loc' = [NoLoc EXCEPT !.address = address, !.data = p.data,
                                            !.blockLength = blockLength,
                                            !.blockCount = blockCount,
                                            !.offset = 0]
                    /\ lookups' = find_descriptor("OUT")
                    /\ found' = [found EXCEPT !["OUT"] = @ + 1]
                    /\ log' = << x >>
                    /\ recv' = Recv(<< >>, << x >>, usbOk)
                    /\ ret' = << >>
                    /\ IF ~Raised(usbOk)
                       THEN /\ pc' = "writeLargeMemory"
                            /\ result' = "running"
                       ELSE /\ pc' = "done"
                            /\ result' = "USBError"

\* a bulk loop that runs no iteration
writeLargeMemoryMore_never(blockCount) == FALSE

\* writeLargeMemory line 209: the loop test
writeLargeMemoryMore(blockCount) == blockCount > 0

\* writeLargeMemory: one evaluation of `while blockCount > 0:` and its body
Loop_writeLargeMemory ==
    /\ pc = "writeLargeMemory"
    /\ UNCHANGED << op, args, lookups, found, lvars, dev, written >>
    /\ IF ~writeLargeMemoryMore(loc.blockCount)
       THEN /\ End("ok", << >>)
            /\ UNCHANGED << loc, log, recv >>
       ELSE \E usbOk \in BOOLEAN :
            /\ log' = Append(log, ep_write(Slice(loc.data, loc.offset,
                                                 loc.offset + loc.blockLength), 100))
            /\ recv' = Recv(recv, << ep_write(Slice(loc.data, loc.offset,
                                                    loc.offset + loc.blockLength), 100) >>,
                            usbOk)
            /\ IF Raised(usbOk)
               THEN /\ End("USBError", << >>)
                    /\ UNCHANGED loc
               ELSE /\ loc' = [loc EXCEPT !.offset = loc.offset + loc.blockLength,
                                          !.blockCount = loc.blockCount - 1]
                    /\ UNCHANGED << pc, result, ret >>

\* readLargeMemory lines 216-219: the length announced, or the exception
readLargeMemoryLength(length, blockLength, appendZeros) ==
    IF appendZeros
    THEN [ raise |-> "none", length |-> length + (length % blockLength) ]
    ELSE IF length % blockLength # 0
    THEN [ raise |-> "ValueError", length |-> length ]
    ELSE [ raise |-> "none", length |-> length ]

\* readLargeMemory line 221
readLargeMemoryCount(length, blockLength) == length \div blockLength

\* readLargeMemory lines 222, 235-239: the announcement
readLargeMemoryAnnounce(address, length, blockLength, blockCount) ==
    ctrl_transfer(64, REQ_RD_LARGE_MEM, blockLength, blockCount,
                  pack_IIII(address, ToU(length), U(0, 0), U(0, 0)), 16)

\* the block put in front of the data read so far
readLargeMemoryJoin_front(data, block) == block \o data

\* readLargeMemory line 242: data + ''.join(map(chr, block)); a character is
\* held as its code point, and chr(b) has code point b
readLargeMemoryJoin(data, block) == data \o [k \in 1..Len(block) |-> block[k]]

\* readLargeMemory(address, length, blockLength, appendZeros): lines 216-239,
\* up to the loop
Call_readLargeMemory ==
    \E address \in Addrs, length \in 0..MaxLargeLen,
       blockLength \in 1..MaxBlockLength, appendZeros \in BOOLEAN :
        LET p == readLargeMemoryLength(length, blockLength, appendZeros)
            blockCount == readLargeMemoryCount(p.length, blockLength)
            x == readLargeMemoryAnnounce(address, p.length, blockLength, blockCount)
        IN  /\ Begin("readLargeMemory",
                     [address |-> address, length |-> length,
                      blockLength |-> blockLength, appendZeros |-> appendZeros])
            /\ Unused
            /\ found["OUT"] + found["IN"] < MaxSessionLookups
            /\ UNCHANGED << dev, written >>
            /\ IF p.raise # "none"
               THEN /\ End(p.raise, << >>)
                    /\ loc' = NoLoc
                    /\ log' = << >>
                    /\ recv' = << >>
                    /\ lookups' = << >>
                    /\ UNCHANGED found
               ELSE \E usbOk \in BOOLEAN :
                    /\ loc' = [NoLoc EXCEPT !.address = address, !.length = p.length,
                                            !.blockLength = blockLength,
                                            !.blockCount = blockCount,
                                            !.data = << >>]
                    /\ lookups' = find_descriptor("IN")
                    /\ found' = [found EXCEPT !["IN"] = @ + 1]
                    /\ log' = << x >>
                    /\ recv' = Recv(<< >>, << x >>, usbOk)
                    /\ ret' = << >>
                    /\ IF ~Raised(usbOk)
                       THEN /\ pc' = "readLargeMemory"
                            /\ result' = "running"
                       ELSE /\ pc' = "done"
                            /\ result' = "USBError"

\* readLargeMemory: one evaluation of `while blockCount > 0:` and its body,
\* or `return data`
Loop_readLargeMemory ==
    /\ pc = "readLargeMemory"
    /\ UNCHANGED << op, args, lookups, found, lvars, dev, written >>
    /\ IF ~(loc.blockCount > 0)
       THEN /\ End("ok", loc.data)
            /\ UNCHANGED << loc, log, recv >>
       ELSE \E usbOk \in BOOLEAN :
            LET block == IF usbOk
                         THEN DevBulkRead(dev, log[1], Len(loc.data), loc.blockLength)
                         ELSE << >>
            IN  /\ log' = Append(log, ep_read(loc.blockLength, 100, block))
                /\ recv' = Recv(recv, << ep_read(loc.blockLength, 100, block) >>, usbOk)
                /\ IF Raised(usbOk)
                   THEN /\ End("USBError", << >>)
                        /\ UNCHANGED loc
                   ELSE /\ loc' = [loc EXCEPT
                                    !.data = readLargeMemoryJoin(loc.data, block),
                                    !.blockCount = loc.blockCount - 1]
                        /\ UNCHANGED << pc, result, ret >>

Next ==
    \/ Call_writeSimpleMemory
    \/ Call_readSimpleMemory
    \/ Call_writeMemory
    \/ Loop_writeMemory
    \/ Call_readMemory
    \/ Loop_readMemory
    \/ Call_modifyMemory
    \/ Call_writeReg
    \/ Call_maskRegAND
    \/ Call_maskRegOR
    \/ Call_maskRegNAND
    \/ Call_writeRegBits
    \/ Call_copyReg
    \/ Call_copyRegMaskAND
    \/ Call_memcpy
    \/ Call_run
    \/ Call_sendPassword
    \/ Call_writeLargeMemory
    \/ Loop_writeLargeMemory
    \/ Call_readLargeMemory
    \/ Loop_readLargeMemory
    \/ Return
    \/ NewSession
    \/ NewStub

Spec == Init /\ [][Next]_vars

\* every USB transaction eventually completes or fails, so a call that is
\* inside one of its loops eventually takes the loop's next step
FairSpec ==
    /\ Init
    /\ [][Next]_vars
    /\ WF_vars(Loop_writeMemory)
    /\ WF_vars(Loop_readMemory)
    /\ WF_vars(Loop_writeLargeMemory)
    /\ WF_vars(Loop_readLargeMemory)

\* --------------------------------------- two callers, one locked session
\* Two caller threads share the session and take an exclusive lock around
\* each call. The stub is fresh and every call uses address 0x1000.
LockedAddr == U(0, 4096)

InCall == { "locked", "writeLargeMemory", "readLargeMemory", "unlock" }

\* the transfer x as it appears on the device, issued by caller c
OnWire(c, x) == [ by |-> c, call |-> th[c].call, x |-> x ]

\* a caller decides to make a call and blocks on the lock
Lock_request ==
    \E c \in Callers :
        /\ th[c].pc = "idle"
        /\ th' = [th EXCEPT ![c].pc = "waiting"]
        /\ UNCHANGED << lock, wire, serial >>
        /\ UNCHANGED vars0

\* the lock is free: a waiting caller takes it and its call starts
Lock_acquire ==
    \E c \in Callers :
        /\ th[c].pc = "waiting"
        /\ lock = 0
        /\ lock' = c
        /\ serial' = (serial + 1) % 3
        /\ th' = [th EXCEPT ![c].pc = "locked", ![c].call = (serial + 1) % 3]
        /\ UNCHANGED wire
        /\ UNCHANGED vars0

\* the call ended, by return or by exception: the caller drops the lock;
\* of the transfers seen so far only those of this call are kept
Lock_release ==
    \E c \in Callers :
        /\ th[c].pc = "unlock"
        /\ lock = c
        /\ lock' = 0
        /\ th' = [th EXCEPT ![c] = IdleThread]
        /\ wire' = SelectSeq(wire, LAMBDA e : e.call = th[c].call)
        /\ UNCHANGED serial
        /\ UNCHANGED vars0

\* the lock holder calls writeSimpleMemory
Locked_writeSimpleMemory ==
    \E c \in Callers, n \in { 0, 1 }, usbOk \in BOOLEAN :
        LET r == writeSimpleMemory(LockedAddr, Buf(1, n))
        IN  /\ th[c].pc = "locked"
            /\ wire' = wire \o [k \in 1..Len(r.xfer) |-> OnWire(c, r.xfer[k])]
            /\ th' = [th EXCEPT ![c].pc = "unlock",
                                ![c].op = "writeSimpleMemory",
                                ![c].result = IF r.raise # "none" THEN r.raise
                                              ELSE IF Raised(usbOk) THEN "USBError"
                                              ELSE "ok"]
            /\ UNCHANGED << lock, serial >>
            /\ UNCHANGED vars0

\* the lock holder calls writeLargeMemory: lines 182-207
Locked_writeLargeMemory ==
    \E c \in Callers, n \in 0..MaxLockedLen, blockLength \in { 1, 2 },
       appendZeros \in BOOLEAN, usbOk \in BOOLEAN :
        LET p == writeLargeMemoryPad(Buf(1, n), blockLength, appendZeros)
            blockCount == writeLargeMemoryCount(Len(p.data), blockLength)
            x == writeLargeMemoryAnnounce(LockedAddr, p.data, blockLength, blockCount)
        IN  /\ th[c].pc = "locked"
            /\ UNCHANGED << lock, serial >>
            /\ UNCHANGED vars0
            /\ IF p.raise # "none"
               THEN /\ th' = [th EXCEPT ![c].pc = "unlock",
                                        ![c].op = "writeLargeMemory",
                                        ![c].result = p.raise]
                    /\ UNCHANGED wire
               ELSE /\ wire' = Append(wire, OnWire(c, x))
                    /\ th' = [th EXCEPT
                            ![c].pc = IF Raised(usbOk) THEN "unlock"
                                      ELSE "writeLargeMemory",
                            ![c].op = "writeLargeMemory",
                            ![c].result = IF Raised(usbOk) THEN "USBError"
                                          ELSE "running",
                            ![c].data = p.data,
                            ![c].blockLength = blockLength,
                            ![c].blockCount = blockCount,
                            ![c].offset = 0]

\* the lock holder inside writeLargeMemory: lines 209-212
Locked_writeLargeMemoryLoop ==
    \E c \in Callers :
        /\ th[c].pc = "writeLargeMemory"
        /\ UNCHANGED << lock, serial >>
        /\ UNCHANGED vars0
        /\ IF ~writeLargeMemoryMore(th[c].blockCount)
           THEN /\ th' = [th EXCEPT ![c].pc = "unlock", ![c].result = "ok"]
                /\ UNCHANGED wire
           ELSE \E usbOk \in BOOLEAN :
                /\ wire' = Append(wire, OnWire(c,
                        ep_write(Slice(th[c].data, th[c].offset,
                                       th[c].offset + th[c].blockLength), 100)))
                /\ IF Raised(usbOk)
                   THEN th' = [th EXCEPT ![c].pc = "unlock",
                                         ![c].result = "USBError"]
                   ELSE th' = [th EXCEPT
                            ![c].offset = th[c].offset + th[c].blockLength,
                            ![c].blockCount = th[c].blockCount - 1]

\* the lock holder calls readLargeMemory: lines 216-239
Locked_readLargeMemory ==
    \E c \in Callers, length \in 0..MaxLockedLen, blockLength \in { 1, 2 },
       appendZeros \in BOOLEAN, usbOk \in BOOLEAN :
        LET p == readLargeMemoryLength(length, blockLength, appendZeros)
            blockCount == readLargeMemoryCount(p.length, blockLength)
            x == readLargeMemoryAnnounce(LockedAddr, p.length, blockLength, blockCount)
        IN  /\ th[c].pc = "locked"
            /\ UNCHANGED << lock, serial >>
            /\ UNCHANGED vars0
            /\ IF p.raise # "none"
               THEN /\ th' = [th EXCEPT ![c].pc = "unlock",
                                        ![c].op = "readLargeMemory",
                                        ![c].result = p.raise]
                    /\ UNCHANGED wire
               ELSE /\ wire' = Append(wire, OnWire(c, x))
                    /\ th' = [th EXCEPT
                            ![c].pc = IF Raised(usbOk) THEN "unlock"
                                      ELSE "readLargeMemory",
                            ![c].op = "readLargeMemory",
                            ![c].result = IF Raised(usbOk) THEN "USBError"
                                          ELSE "running",
                            ![c].data = << >>,
                            ![c].blockLength = blockLength,
                            ![c].blockCount = blockCount,
                            ![c].offset = 0]

\* the lock holder inside readLargeMemory: lines 241-245
Locked_readLargeMemoryLoop ==
    \E c \in Callers :
        /\ th[c].pc = "readLargeMemory"
        /\ UNCHANGED << lock, serial >>
        /\ UNCHANGED vars0
        /\ IF ~(th[c].blockCount > 0)
           THEN /\ th' = [th EXCEPT ![c].pc = "unlock", ![c].result = "ok"]
                /\ UNCHANGED wire
           ELSE \E usbOk \in BOOLEAN :
                LET ann == (CHOOSE e \in { wire[i] : i \in 1..Len(wire) } :
                                e.call = th[c].call /\ e.x.kind = "ctrl").x
                    block == IF usbOk
                             THEN DevBulkRead(dev, ann, Len(th[c].data),
                                              th[c].blockLength)
                             ELSE << >>
                IN  /\ wire' = Append(wire, OnWire(c,
                            ep_read(th[c].blockLength, 100, block)))
                    /\ IF Raised(usbOk)
                       THEN th' = [th EXCEPT ![c].pc = "unlock",
                                             ![c].result = "USBError"]
                       ELSE th' = [th EXCEPT
                                ![c].data = readLargeMemoryJoin(th[c].data, block),
                                ![c].blockCount = th[c].blockCount - 1]

LockedNext ==
    \/ Lock_request
    \/ Lock_acquire
    \/ Lock_release
    \/ Locked_writeSimpleMemory
    \/ Locked_writeLargeMemory
    \/ Locked_writeLargeMemoryLoop
    \/ Locked_readLargeMemory
    \/ Locked_readLargeMemoryLoop

LockedSpec == Init /\ [][LockedNext]_vars

\* ==================================================================== claims
Done(name) == pc = "done" /\ op = name
DoneOk(name) == Done(name) /\ result = "ok"

CeilDiv(n, d) == (n + d - 1) \div d

BulkWrites == { i \in 1..Len(log) : log[i].kind = "bulk_out" }

\* C1: a writeMemory call that returns has issued exactly ceil(n/64)
\* write-memory control transfers; transfer i (from 0) is addressed at
\* address + 64*i and carries data[64*i .. min(64*(i+1), n)), so every chunk
\* is at most 64 bytes and the chunks cover data in order, without gaps or
\* overlaps.
C1_WriteMemoryChunks ==
    DoneOk("writeMemory") =>
        LET n == Len(args.data) IN
        /\ Len(log) = CeilDiv(n, 64)
        /\ \A i \in 0..(Len(log) - 1) :
            LET a == AddU(args.address, 64 * i) IN
            /\ log[i + 1].kind = "ctrl"
            /\ log[i + 1].bmRequestType = 64
            /\ log[i + 1].bRequest = REQ_WRITE_MEM
            /\ log[i + 1].wValue = a.hi
            /\ log[i + 1].wIndex = a.lo
            /\ log[i + 1].data = SubSeq(args.data, 64 * i + 1, Min(64 * (i + 1), n))
            /\ Len(log[i + 1].data) <= 64

C1_Witness ==
    /\ DoneOk("writeMemory")
    /\ Len(args.data) = 130
    /\ Len(log) = 3
    /\ Len(log[3].data) = 2

\* C2: against the memory-backed stub, readMemory(addr, len(data)) after a
\* completed writeMemory(addr, data) returns exactly data.
C2_RoundTrip ==
    ( /\ DoneOk("readMemory")
      /\ written.by = "writeMemory"
      /\ written.done
      /\ args.address = written.address
      /\ args.length = Len(written.data) )
    => ret = written.data

C2_Witness ==
    /\ DoneOk("readMemory")
    /\ written.by = "writeMemory"
    /\ written.done
    /\ args.address = written.address
    /\ args.length = Len(written.data)
    /\ Len(written.data) = 129
    /\ ret = written.data
    /\ ret[129] # ret[65]

\* C3 (as claimed): writeLargeMemory with appendZeros=True pads data with
\* zero bytes up to the next multiple of blockLength and issues exactly
\* ceil(n/blockLength) bulk-OUT writes.
C3_PadsToBlockMultiple ==
    ( DoneOk("writeLargeMemory") /\ args.appendZeros ) =>
        LET n == Len(args.data)
            c == CeilDiv(n, args.blockLength)
        IN  /\ Len(loc.data) = c * args.blockLength
            /\ SubSeq(loc.data, 1, n) = args.data
            /\ \A k \in (n + 1)..Len(loc.data) : loc.data[k] = 0
            /\ Cardinality(BulkWrites) = c

\* C4: writeLargeMemory with appendZeros=False and a data length that is not
\* a multiple of blockLength fails with ValueError, and has issued nothing:
\* no announcement, no bulk write (and no endpoint lookup).
C4_RejectsUnalignedLength ==
    ( /\ op = "writeLargeMemory"
      /\ ~args.appendZeros
      /\ Len(args.data) % args.blockLength # 0 )
    => /\ pc = "done"
       /\ result = "ValueError"
       /\ log = << >>
       /\ lookups = << >>

C4_Witness ==
    /\ Done("writeLargeMemory")
    /\ ~args.appendZeros
    /\ Len(args.data) = 5
    /\ args.blockLength = 4
    /\ result = "ValueError"

\* C5: while a writeLargeMemory call runs, the first transaction it issues is
\* the announcement and every later one is a bulk-OUT write; when it returns
\* it has issued the announcement (0x40, write-large-mem, wValue =
\* blockLength, wIndex = blockCount, payload {address, totalLength, 0, 0},
\* totalLength the length of the buffer it sends) followed by exactly
\* blockCount bulk writes, the i-th carrying the blockLength bytes
\* data[i*blockLength .. (i+1)*blockLength).
C5_AnnounceThenBlocks ==
    /\ ( op = "writeLargeMemory" /\ log # << >> ) =>
        /\ log[1].kind = "ctrl"
        /\ \A i \in 2..Len(log) : log[i].kind = "bulk_out"
    /\ DoneOk("writeLargeMemory") =>
        LET bl == args.blockLength
            sent == loc.data
            count == Len(log) - 1
        IN  /\ Len(log) >= 1
            /\ log[1].bmRequestType = 64
            /\ log[1].bRequest = REQ_WR_LARGE_MEM
            /\ log[1].wValue = bl
            /\ log[1].wIndex = count
            /\ Len(log[1].data) = 16
            /\ Field(log[1].data, 0) = args.address
            /\ Field(log[1].data, 1) = ToU(Len(sent))
            /\ Field(log[1].data, 2) = U(0, 0)
            /\ Field(log[1].data, 3) = U(0, 0)
            /\ SubSeq(sent, 1, Len(args.data)) = args.data
            /\ \A i \in 0..(count - 1) :
                /\ Len(log[i + 2].data) = bl
                /\ log[i + 2].data = SubSeq(sent, i * bl + 1, (i + 1) * bl)

C5_Witness ==
    /\ DoneOk("writeLargeMemory")
    /\ args.blockLength = 3
    /\ Len(args.data) = 9
    /\ Len(log) = 4

\* the transfer the sub-opcode table of the modify engine prescribes
TableTransfer(sub, address1, data, mask, address2) ==
    [ kind |-> "ctrl", bmRequestType |-> 64, bRequest |-> REQ_MODIFY_MEM,
      wValue |-> sub, wIndex |-> 0,
      data |-> pack_I(address1) \o pack_I(data) \o pack_I(mask) \o pack_I(address2),
      wLength |-> 16 ]

\* C6 (as claimed): each of the eight register-modify helpers issues exactly
\* one modify-memory control transfer whose wValue is its sub-opcode and whose
\* payload follows the table: address1 the target for 0-4, address1 the
\* destination and address2 the source for 5, 6 and 7.
C6_HelpersFollowTable ==
    LET Z == U(0, 0) IN
    /\ Done("writeReg") => log = << TableTransfer(0, args.address, args.value, Z, Z) >>
    /\ Done("maskRegAND") => log = << TableTransfer(1, args.address, Z, args.mask, Z) >>
    /\ Done("maskRegOR") => log = << TableTransfer(2, args.address, Z, args.mask, Z) >>
    /\ Done("maskRegNAND") => log = << TableTransfer(3, args.address, Z, args.mask, Z) >>
    /\ Done("writeRegBits") =>
        log = << TableTransfer(4, args.address, args.value, args.mask, Z) >>
    /\ Done("copyReg") => log = << TableTransfer(5, args.dest, Z, Z, args.source) >>
    /\ Done("copyRegMaskAND") =>
        log = << TableTransfer(6, args.dest, Z, args.mask, args.source) >>
    /\ Done("memcpy") => log = << TableTransfer(7, args.dest, ToU(args.n), Z, args.src) >>

\* C7 (as claimed): sendPassword fails before any transfer is issued if and
\* only if the password is not exactly 64 bytes long (whichever exception the
\* failure is reported with); with exactly 64 bytes it does not fail locally
\* and issues exactly one host-to-device password control transfer carrying
\* those 64 bytes.
C7_PasswordLengthCheck ==
    Done("sendPassword") =>
        /\ (Len(args.password) # 64) <=> (result \notin { "ok", "USBError" })
        /\ result \notin { "ok", "USBError" } => log = << >>
        /\ Len(args.password) = 64 =>
            log = << ctrl_transfer(64, REQ_PASSWORD, 0, 0, args.password, 64) >>

\* C8: writeSimpleMemory with more than 64 bytes and readSimpleMemory with a
\* length above 64 fail with ValueError and issue no control transfer; for
\* every length from 1 to 64 each issues exactly one control transfer;
\* readSimpleMemory with length 0 succeeds, returns an empty buffer and issues
\* no transfer.
C8_SimpleCeiling ==
    /\ Done("writeSimpleMemory") =>
        LET n == Len(args.data) IN
        /\ n > 64 => ( result = "ValueError" /\ log = << >> )
        /\ (1 <= n /\ n <= 64) =>
            /\ result \in { "ok", "USBError" }
            /\ Len(log) = 1
            /\ log[1].kind = "ctrl"
    /\ Done("readSimpleMemory") =>
        LET n == args.length IN
        /\ n > 64 => ( result = "ValueError" /\ log = << >> )
        /\ (1 <= n /\ n <= 64) =>
            /\ result \in { "ok", "USBError" }
            /\ Len(log) = 1
            /\ log[1].kind = "ctrl"
        /\ n = 0 => ( result = "ok" /\ ret = << >> /\ log = << >> )

C8_Witness ==
    /\ Done("writeSimpleMemory")
    /\ Len(args.data) = 64
    /\ result = "ok"
    /\ Len(log) = 1

\* C9: writeReg(address, value) puts on the wire exactly what
\* modifyMemory(0, address, value, 0, 0) puts on the wire: one control
\* transfer with the same request type, opcode, wValue, wIndex and payload.
C9_WriteRegIsModifyZero ==
    Done("writeReg") =>
        log = << modifyMemory(0, args.address, args.value, U(0, 0), U(0, 0)) >>

C9_Witness ==
    /\ Done("writeReg")
    /\ args.value = U(3855, 255)
    /\ Len(log) = 1
    /\ log[1].wValue = 0

\* bit i (0..31) of a 32-bit word
Bit(w, i) == IF i < 16 THEN (w.lo \div (2 ^ i)) % 2 ELSE (w.hi \div (2 ^ (i - 16))) % 2

\* C10: against the stub that applies the sub-opcode table, a completed
\* writeRegBits(address, mask, value) leaves the register at address equal to
\* (old & ~mask) | (value & mask) and changes no other register and no byte
\* of memory.
C10_WriteRegBitsLaw ==
    [][ ( pc = "idle" /\ op' = "writeRegBits" /\ result' = "ok" ) =>
        /\ \A i \in 0..31 :
            Bit(dev'.regs[args'.address], i) =
                IF Bit(args'.mask, i) = 1
                THEN Bit(args'.value, i)
                ELSE Bit(dev.regs[args'.address], i)
        /\ \A a \in RegAddrs \ { args'.address } : dev'.regs[a] = dev.regs[a]
        /\ dev'.mem = dev.mem ]_vars

C10_Witness ==
    /\ DoneOk("writeRegBits")
    /\ args.mask = U(3855, 255)
    /\ args.value = U(0, 0)
    /\ dev.regs[args.address] = U(61680, 65280)

\* C11: run(address, keep_power) issues exactly one host-to-device
\* run-in-addr control transfer; its 4-byte little-endian payload decodes to
\* address with bit 0x10 set when keep_power is true and to address itself
\* when it is false (0x1000 gives 0x1010 and 0x1000); wValue and wIndex are
\* the high and low 16 bits of the unflagged address.
C11_RunPayload ==
    Done("run") =>
        /\ Len(log) = 1
        /\ log[1].kind = "ctrl"
        /\ log[1].bmRequestType = 64
        /\ log[1].bRequest = REQ_RUN_IN_ADDR
        /\ log[1].wValue = args.address.hi
        /\ log[1].wIndex = args.address.lo
        /\ Len(log[1].data) = 4
        /\ \A i \in 0..31 :
            Bit(Field(log[1].data, 0), i) =
                IF args.keep_power /\ i = 4 THEN 1 ELSE Bit(args.address, i)
        /\ args.address = U(0, 4096) =>
            Field(log[1].data, 0) = IF args.keep_power THEN U(0, 4112) ELSE U(0, 4096)

C11_Witness ==
    /\ DoneOk("run")
    /\ args.address = U(0, 4096)
    /\ args.keep_power
    /\ log[1].data = << 16, 16, 0, 0 >>

ZeroLengthCall ==
    \/ /\ op \in { "writeSimpleMemory", "writeMemory", "writeLargeMemory" }
       /\ args.data = << >>
    \/ /\ op \in { "readSimpleMemory", "readMemory", "readLargeMemory" }
       /\ args.length = 0

\* C13: writeSimpleMemory, writeMemory, readSimpleMemory, readMemory,
\* writeLargeMemory and readLargeMemory called with zero length succeed and
\* issue no USB transaction, control or bulk.
C13_ZeroLengthNoOp ==
    ZeroLengthCall =>
        /\ log = << >>
        /\ pc = "done" => result = "ok"

\* bytes carried by the bulk transfers of the call
BulkBytes ==
    LET f[i \in 0..Len(log)] ==
            IF i = 0 THEN 0
            ELSE f[i - 1] + (IF log[i].kind \in { "bulk_out", "bulk_in" }
                             THEN Len(log[i].data) ELSE 0)
    IN  f[Len(log)]

\* C14: for every writeLargeMemory and readLargeMemory call that issues an
\* announcement (any length, any blockLength >= 1, either appendZeros), the
\* total length announced in the payload equals wValue * wIndex
\* (blockLength * blockCount), and when the call has succeeded its bulk
\* transfers have moved exactly that many bytes.
C14_AnnouncedTotal ==
    (op \in { "writeLargeMemory", "readLargeMemory" } /\ Len(log) >= 1) =>
        /\ Field(log[1].data, 1) = ToU(log[1].wValue * log[1].wIndex)
        /\ (pc = "done" /\ result = "ok") => ToU(BulkBytes) = Field(log[1].data, 1)

\* C15: a successful readMemory(address, length) has issued exactly
\* ceil(length/64) read-memory control transfers: floor(length/64) reads of
\* 64 bytes at address + 64*i in increasing order, then one read of
\* length mod 64 bytes only when that is not zero; the result is the
\* concatenation of what the reads returned, in issue order.
C15_ReadMemoryChunks ==
    DoneOk("readMemory") =>
        LET n == args.length
            q == n \div 64
        IN  /\ Len(log) = CeilDiv(n, 64)
            /\ \A i \in 1..Len(log) :
                /\ log[i].kind = "ctrl"
                /\ log[i].bmRequestType = 192
                /\ log[i].bRequest = REQ_READ_MEM
                /\ log[i].wLength = IF i <= q THEN 64 ELSE n % 64
                /\ U(log[i].wValue, log[i].wIndex) = AddU(args.address, 64 * (i - 1))
            /\ Len(ret) = n
            /\ \A i \in 1..Len(log) : \A j \in 1..log[i].wLength :
                ret[64 * (i - 1) + j] = DevRead(dev, log[i])[j]

C15_Witness ==
    /\ DoneOk("readMemory")
    /\ args.length = 130
    /\ Len(log) = 3
    /\ log[3].wLength = 2
    /\ log[2].wLength = 64

MultiOps == { "writeMemory", "readMemory", "writeLargeMemory", "readLargeMemory" }

\* C16: when a transaction of writeMemory, readMemory, writeLargeMemory or
\* readLargeMemory fails at the transport, the call ends with that failure:
\* the failed transaction is the last one the call issued and was issued
\* once, every transaction before it was completed and stays completed, and
\* the device holds exactly the chunks before the failing one.
C16_AbortOnFailure ==
    op \in MultiOps =>
        /\ Len(recv) <= Len(log)
        /\ SubSeq(log, 1, Len(recv)) = recv
        /\ Len(recv) < Len(log) =>
            /\ pc = "done"
            /\ result = "USBError"
            /\ Len(log) = Len(recv) + 1
        /\ result = "USBError" => Len(log) = Len(recv) + 1
        /\ op = "writeMemory" =>
            /\ dev.mem = MemStore(EmptyMem, args.address,
                                  Slice(args.data, 0, 64 * Len(recv)))
            /\ \A i \in 1..Len(log) :
                /\ U(log[i].wValue, log[i].wIndex) = AddU(args.address, 64 * (i - 1))
                /\ log[i].data = Slice(args.data, 64 * (i - 1), 64 * i)
        /\ op = "readMemory" =>
            \A i \in 1..Len(log) :
                U(log[i].wValue, log[i].wIndex) = AddU(args.address, 64 * (i - 1))
        /\ (op = "writeLargeMemory" /\ Len(log) >= 1) =>
            /\ Len(log) <= 1 + log[1].wIndex
            /\ \A i \in 2..Len(log) :
                log[i].data = Slice(loc.data, (i - 2) * args.blockLength,
                                    (i - 1) * args.blockLength)
        /\ (op = "readLargeMemory" /\ Len(log) >= 1) =>
            Len(log) <= 1 + log[1].wIndex

C16_Witness ==
    /\ Done("writeMemory")
    /\ result = "USBError"
    /\ Len(args.data) = 130
    /\ Len(log) = 2
    /\ recv = << log[1] >>
    /\ dev.mem = MemStore(EmptyMem, args.address, Slice(args.data, 0, 64))

\* lookups for direction d made by the call in progress
LookupsNow(d) == Cardinality({ i \in 1..Len(lookups) : lookups[i] = d })

\* C17: the bulk endpoint lookup is lazy and cached per session: a new
\* session has made no lookup, an operation that uses only control
\* transfers makes none, and over any sequence of writeLargeMemory and
\* readLargeMemory calls on one session the lookup for each direction is
\* made at most once.
C17_LookupCached ==
    /\ op \notin LargeOps => lookups = << >>
    /\ found["OUT"] <= 1
    /\ found["IN"] <= 1
    /\ \A d \in { "OUT", "IN" } : LookupsNow(d) <= 1

\* C18: for every 32-bit start address and every length, each control
\* transfer of writeMemory and readMemory carries wValue and wIndex in
\* 0..0xffff with (wValue << 16) | wIndex = (address + offset) mod 2^32 for
\* its chunk, also when address + offset reaches or passes 2^32.
C18_AddressHalvesFit ==
    op \in { "writeMemory", "readMemory" } =>
        \A i \in 1..Len(log) :
            /\ log[i].wValue \in 0..65535
            /\ log[i].wIndex \in 0..65535
            /\ U(log[i].wValue, log[i].wIndex) = DevAddr(args.address, 64 * (i - 1))

\* an iteration that leaves the call inside its loop
Iterates == pc \in MultiOps /\ pc' = pc

\* C20: when every USB transaction eventually completes or fails, every
\* call of writeMemory, readMemory, writeLargeMemory and readLargeMemory
\* eventually returns or fails: each iteration that stays in a chunk loop
\* lowers the remaining length, each iteration that stays in a bulk loop
\* lowers blockCount, and a call inside its loop eventually ends.
C20_Terminates ==
    /\ [][Iterates =>
            /\ Len(log') = Len(log) + 1
            /\ pc \in { "writeMemory", "readMemory" } =>
                (loc'.length < loc.length /\ loc'.length >= 0)
            /\ pc \in LargeOps =>
                (loc'.blockCount < loc.blockCount /\ loc'.blockCount >= 0)]_vars
    /\ (pc \in MultiOps) ~> (pc = "done")

C20_Witness ==
    /\ DoneOk("writeLargeMemory")
    /\ Len(log) = 4
    /\ loc.blockCount = 0
    /\ Len(recv) = 4

\* positions on the wire of the transfers of the call that issued wire[i]
OwnTransfers(i) == { j \in 1..Len(wire) : wire[j].call = wire[i].call }

IsAnnouncement(e) ==
    e.x.kind = "ctrl" /\ e.x.bRequest \in { REQ_WR_LARGE_MEM, REQ_RD_LARGE_MEM }

\* C19: when two callers take one exclusive lock around each call, then in
\* every interleaving the transfers of a large transfer are consecutive on
\* the device: its announcement is followed by its own bulk blocks only, up
\* to its last one, with no transfer of another operation in between; at
\* most one caller is inside a call, and a large transfer that returned has
\* issued all the blocks it announced.
C19_NoInterleaving ==
    /\ Cardinality({ c \in Callers : th[c].pc \in InCall }) <= 1
    /\ \A i \in 1..Len(wire) :
        IsAnnouncement(wire[i]) =>
            LET n == Cardinality(OwnTransfers(i)) IN
            /\ OwnTransfers(i) = i..(i + n - 1)
            /\ \A j \in (i + 1)..(i + n - 1) :
                /\ wire[j].x.kind \in { "bulk_out", "bulk_in" }
                /\ wire[j].by = wire[i].by
            /\ n - 1 <= wire[i].x.wIndex
    /\ \A c \in Callers :
        (th[c].pc = "unlock" /\ th[c].op \in LargeOps /\ th[c].result = "ok") =>
            \E i \in 1..Len(wire) :
                /\ wire[i].call = th[c].call
                /\ IsAnnouncement(wire[i])
                /\ Cardinality(OwnTransfers(i)) = 1 + wire[i].x.wIndex

C19_Witness ==
    /\ Len(wire) = 5
    /\ IsAnnouncement(wire[1])
    /\ wire[1].by = 1
    /\ wire[1].x.wIndex = 2
    /\ wire[3].x.kind = "bulk_out"
    /\ IsAnnouncement(wire[4])
    /\ wire[4].by = 2
    /\ wire[5].x.kind = "bulk_in"
    /\ th[1].pc = "waiting"
====
